---- MODULE Spec2Model ----
(***************************************************************************)
(* PathWalker: the POST /sortest endpoint and the OpenCL shortest-path     *)
(* service behind it (src/src/endpoints/mod.rs,                            *)
(* src/src/services/sortest_path.rs).                                      *)
(*                                                                         *)
(* One behaviour is the start of the process and its first request: main   *)
(* starts the server, the endpoint validates the body, the first use of    *)
(* WALKER builds the device session, the service allocates the buffers,    *)
(* dispatches initialize_algorithm_buffers, then width times               *)
(* (shortest_path_algorithm, merge_sortest_path, three buffer reads), and  *)
(* the endpoint turns the returned value into the HTTP response.  A        *)
(* dispatch runs one lane per vertex; the lanes of a dispatch are taken in *)
(* any order, one lane per step.  The queue is in-order: a dispatch starts *)
(* when the lanes of the previous one are finished.                        *)
(*                                                                         *)
(* Numbers: the buffers hold f32, modelled on a scale on which FLT_MAX is   *)
(* 1000000.  Sums of small values are exact; a sum within Ulp of FLT_MAX   *)
(* rounds to FLT_MAX (FLT_MAX + 4.0 == FLT_MAX in f32); a sum beyond that  *)
(* overflows to +infinity (Infinity); see FAdd.                            *)
(***************************************************************************)
EXTENDS Integers, Sequences, FiniteSets, TLC

(* ------------------------------ bounds -------------------------------- *)

\* largest dimension of the enumerated matrices
MaxN == 3
\* largest number of nonzero entries of an enumerated matrix
MaxEdges == 2
\* largest weight of an enumerated matrix
MaxW == 1

(* ------------------------- program constants -------------------------- *)

\* FLT_MAX of the kernels, the sentinel (3.4e38 there)
FLT_MAX == 1000000

\* f32: what FLT_MAX absorbs when added (2^103 there)
Ulp == 1000

\* f32: +infinity, the value of a sum that overflows
Infinity == 2000000

\* a finite weight so large that FLT_MAX + Huge overflows (3e38 there)
Huge == 600000

\* the literal 128 of the "too big" rule
MaxWidth == 128

\* the steps of SortestPath::new whose result is unwrapped
WalkerFailures == {"Device::first", "Context::build", "Queue::new",
                   "Program::build"}

\* statuses a failing enqueue or read can report (ocl api_status strings)
DeviceStatuses == {"CL_OUT_OF_RESOURCES", "CL_MEM_OBJECT_ALLOCATION_FAILURE"}

(* ------------------------------ requests ------------------------------ *)

Matrix(width, height, data) == [width |-> width, height |-> height, data |-> data]

\* row-major data of an n x n matrix whose nonzero cells are S, weighted by f
DataOf(n, S, f) == [i \in 1..(n * n) |-> IF (i - 1) \in S THEN f[i - 1] ELSE 0]

\* every n x n matrix with at most MaxEdges nonzero entries, each in 1..MaxW
SparseData(n) ==
    UNION { { DataOf(n, S, f) : f \in [S -> 1..MaxW] } :
            S \in { T \in SUBSET (0..(n * n - 1)) : Cardinality(T) <= MaxEdges } }

SparseRequests == UNION { { Matrix(n, n, d) : d \in SparseData(n) } : n \in 1..MaxN }

\* the matrix of test_get_sortest_path and test_sortest_path_rest_endpoint
TestMatrix ==
    Matrix(6, 6, << 1, 4, 2, 0, 0, 0,
                    4, 1, 1, 5, 0, 0,
                    2, 1, 1, 8, 10, 0,
                    0, 5, 8, 1, 2, 6,
                    0, 0, 10, 2, 1, 2,
                    0, 0, 0, 6, 2, 1 >>)

\* an undirected graph on 4 vertices: edges 0-1 (1), 0-2 (5), 1-2 (3),
\* 1-3 (1), 2-3 (1)
Undirected4 ==
    Matrix(4, 4, << 0, 1, 5, 0,
                    1, 0, 3, 1,
                    5, 3, 0, 1,
                    0, 1, 1, 0 >>)

\* vertex 1 has no incoming edge at all; vertex 2 is reached from 0 (2) and
\* from 1 (1)
ZeroRow3 ==
    Matrix(3, 3, << 0, 0, 0,
                    0, 0, 0,
                    2, 1, 0 >>)

\* a 3 x 3 matrix that uses the sentinel as "no edge"
Sentinel3 ==
    Matrix(3, 3, << 0, 1, FLT_MAX,
                    1, 0, 2,
                    FLT_MAX, 2, 0 >>)

\* vertex 1 has one edge, a self loop of a huge finite weight
Huge2 ==
    Matrix(2, 2, << 0, 0,
                    0, Huge >>)

\* a negative weight, which the validation lets through
Negative3 ==
    Matrix(3, 3, << 0, 0, 0,
                    1, 0, 0,
                    3, -1, 5 >>)

Ones(len) == [i \in 1..len |-> 1]

\* bodies of every shape the validation rules tell apart
ShapeRequests ==
    { Matrix(w, h, Ones(len)) : w \in {0, 1, 2, MaxWidth, MaxWidth + 1},
                                h \in {0, 1, 2, MaxWidth, MaxWidth + 1},
                                len \in {0, 1, 3, 4} }

\* the body of test_sortest_path_rest_endpoint_invalid_matrix: 3 x 3, 49 values
InvalidTestMatrix == Matrix(3, 3, Ones(49))

\* the bodies of the second request of SpecPair
PeerRequests == {Sentinel3, ZeroRow3, Huge2}

Requests == SparseRequests \cup ShapeRequests
                \cup {TestMatrix, Undirected4, ZeroRow3, Sentinel3, Huge2,
                      Negative3, InvalidTestMatrix}

(* ------------------------------- state -------------------------------- *)

VARIABLES
    matrix,        \* the request body (Json<Matrix>)
    pc,            \* where the request is
    round,         \* completed iterations of the for loop
    pending,       \* lanes of the running dispatch that have not run yet
    result, distance, visited, vertex, vertex_temp,   \* device buffers
    h_result, h_vertex, h_distance,                   \* host vectors
    ret,           \* what get_sortest_path returned
    http,          \* the endpoint's response
    dispatched,    \* kernels enqueued so far, in order
    reads,         \* buffer reads that succeeded so far
    called,        \* the last arm was taken: the call of get_sortest_path
    twin,          \* the buffers of a second run of the same request, whose
                   \* dispatches take their lanes in ascending order
    failure,       \* the enqueue or read that failed, with its status
    walker,        \* the lazy static WALKER: "uninit" until its first use,
                   \* then "ready", or the step of SortestPath::new that failed
    regs,          \* SpecRW: the private variables of the lanes in flight
    rset, wset,    \* SpecRW: the buffer cells the lanes of the running
                   \* dispatch have read and written, << buffer, index, lane >>
    peer           \* SpecPair: a second request served at the same time, with
                   \* its own buffers, host vectors and returned value

vars == << matrix, pc, round, pending, result, distance, visited, vertex,
           vertex_temp, h_result, h_vertex, h_distance, ret, http,
           dispatched, reads, called, twin, failure, walker, regs, rset,
           wset, peer >>

rwvars == << regs, rset, wset >>
bufvars == << result, distance, visited, vertex, vertex_temp >>
hostvars == << h_result, h_vertex, h_distance >>

vertex_count == matrix.width
Lanes == 0..(vertex_count - 1)

\* contents of a buffer cell no kernel has written yet
Unset == -1

NoFailure == [stage |-> "", status |-> ""]
NoRet == [kind |-> "none", path |-> << >>, status |-> ""]
NoHttp == [code |-> 0, status |-> "", message |-> "", path |-> << >>]

\* buffer sets of a request that has allocated none
NoBufs == [result |-> << >>, distance |-> << >>, visited |-> << >>,
           vertex |-> << >>, vertex_temp |-> << >>]

NoPeer == [pc |-> "none", matrix |-> Matrix(0, 0, << >>), round |-> 0,
           bufs |-> NoBufs, alone |-> NoBufs, h_vertex |-> << >>,
           h_distance |-> << >>, ret |-> NoRet]

Bufs == [result |-> result, distance |-> distance, visited |-> visited,
         vertex |-> vertex, vertex_temp |-> vertex_temp]

SetBufs(b) ==
    /\ result' = b.result
    /\ distance' = b.distance
    /\ visited' = b.visited
    /\ vertex' = b.vertex
    /\ vertex_temp' = b.vertex_temp

(* ------------------------------ kernels ------------------------------- *)

\* f32 addition on the model's values, round to nearest
FAdd(a, b) ==
    IF a + b >= FLT_MAX + Ulp THEN Infinity
    ELSE IF a + b > FLT_MAX - Ulp THEN FLT_MAX
    ELSE a + b

\* matrix[gid * vertex_count + edge]
Weight(m, gid, edge) == m.data[gid * m.width + edge + 1]

\* weight != 0.0f && weight != FLT_MAX
ValidEdge(weight) == weight # 0 /\ weight # FLT_MAX

\* InitLane with the branch on gid == 0 lost: every lane takes the else arm
InitLaneNoSource(b, gid) ==
    [b EXCEPT !.visited[gid] = 0,
              !.result[gid] = FLT_MAX,
              !.distance[gid] = 0,
              !.vertex[gid] = 0,
              !.vertex_temp[gid] = 0]

\* InitLane without its last three statements: distance, vertex and
\* vertex_temp keep what the fresh buffers hold
InitLaneNoZero(b, gid) ==
    [b EXCEPT !.visited[gid] = IF gid = 0 THEN 1 ELSE 0,
              !.result[gid] = IF gid = 0 THEN 0 ELSE FLT_MAX]

\* one lane of initialize_algorithm_buffers
InitLane(b, gid) ==
    [b EXCEPT !.visited[gid] = IF gid = 0 THEN 1 ELSE 0,
              !.result[gid] = IF gid = 0 THEN 0 ELSE FLT_MAX,
              !.distance[gid] = 0,
              !.vertex[gid] = 0,
              !.vertex_temp[gid] = 0]

\* the for loop of shortest_path_algorithm from `edge` on; acc is the lane's
\* (distance[gid], vertex_temp[gid])
RECURSIVE ScanEdges(_, _, _, _, _)
ScanEdges(m, b, gid, edge, acc) ==
    IF edge >= m.width THEN acc
    ELSE LET weight == Weight(m, gid, edge)
             dist == FAdd(b.result[edge], weight)
         IN  IF ValidEdge(weight) /\ (acc.distance = 0 \/ b.result[gid] > dist)
             THEN ScanEdges(m, b, gid, edge + 1,
                            [distance |-> dist, vertex_temp |-> edge])
             ELSE ScanEdges(m, b, gid, edge + 1, acc)

\* RelaxLane fused with the commit of Merge: the lane also writes result[gid],
\* which the other lanes of the same dispatch read
RelaxLaneFused(m, b, gid) ==
    IF b.visited[gid] # 1
    THEN LET acc == ScanEdges(m, b, gid, 0,
                              [distance |-> b.distance[gid],
                               vertex_temp |-> b.vertex_temp[gid]])
             c == [b EXCEPT !.visited[gid] = 1,
                            !.distance[gid] = acc.distance,
                            !.vertex_temp[gid] = acc.vertex_temp]
         IN  IF c.result[gid] > c.distance[gid]
             THEN [c EXCEPT !.result[gid] = c.distance[gid],
                            !.vertex[gid] = c.vertex_temp[gid]]
             ELSE c
    ELSE b

\* one lane of shortest_path_algorithm
RelaxLane(m, b, gid) ==
    IF b.visited[gid] # 1
    THEN LET acc == ScanEdges(m, b, gid, 0,
                              [distance |-> b.distance[gid],
                               vertex_temp |-> b.vertex_temp[gid]])
         IN  [b EXCEPT !.visited[gid] = 1,
                       !.distance[gid] = acc.distance,
                       !.vertex_temp[gid] = acc.vertex_temp]
    ELSE b

\* MergeLane without the test result[gid] > distance[gid]: it always commits
MergeLaneUnguarded(b, gid) ==
    LET c == [b EXCEPT !.result[gid] = b.distance[gid],
                       !.vertex[gid] = b.vertex_temp[gid]]
    IN  IF gid # 0 THEN [c EXCEPT !.visited[gid] = 0] ELSE c

\* MergeLane with the comparison turned round: result[gid] < distance[gid]
MergeLaneReversed(b, gid) ==
    LET c == IF b.result[gid] < b.distance[gid]
             THEN [b EXCEPT !.result[gid] = b.distance[gid],
                            !.vertex[gid] = b.vertex_temp[gid]]
             ELSE b
    IN  IF gid # 0 THEN [c EXCEPT !.visited[gid] = 0] ELSE c

\* MergeLane without its last statement: visited[gid] is not reset
MergeLaneNoReset(b, gid) ==
    IF b.result[gid] > b.distance[gid]
    THEN [b EXCEPT !.result[gid] = b.distance[gid],
                   !.vertex[gid] = b.vertex_temp[gid]]
    ELSE b

\* MergeLane with >= for >: it also commits a candidate equal to the result
MergeLaneNonStrict(b, gid) ==
    LET c == IF b.result[gid] >= b.distance[gid]
             THEN [b EXCEPT !.result[gid] = b.distance[gid],
                            !.vertex[gid] = b.vertex_temp[gid]]
             ELSE b
    IN  IF gid # 0 THEN [c EXCEPT !.visited[gid] = 0] ELSE c

\* one lane of merge_sortest_path
MergeLane(b, gid) ==
    LET c == IF b.result[gid] > b.distance[gid]
             THEN [b EXCEPT !.result[gid] = b.distance[gid],
                            !.vertex[gid] = b.vertex_temp[gid]]
             ELSE b
    IN  IF gid # 0 THEN [c EXCEPT !.visited[gid] = 0] ELSE c

(* ------------------- dispatches in ascending lane order --------------- *)

\* the lanes gid, gid+1, ..., n-1 of one initialize_algorithm_buffers dispatch
RECURSIVE InitFrom(_, _, _)
InitFrom(b, gid, n) ==
    IF gid >= n THEN b ELSE InitFrom(InitLane(b, gid), gid + 1, n)

\* the lanes gid, gid+1, ... of one shortest_path_algorithm dispatch
RECURSIVE RelaxFrom(_, _, _)
RelaxFrom(m, b, gid) ==
    IF gid >= m.width THEN b ELSE RelaxFrom(m, RelaxLane(m, b, gid), gid + 1)

\* the lanes gid, gid+1, ..., n-1 of one merge_sortest_path dispatch
RECURSIVE MergeFrom(_, _, _)
MergeFrom(b, gid, n) ==
    IF gid >= n THEN b ELSE MergeFrom(MergeLane(b, gid), gid + 1, n)

\* one Relax dispatch and one Merge dispatch, lanes 0, 1, ..., n-1
OneRound(m, b) == MergeFrom(RelaxFrom(m, b, 0), 0, m.width)

(* ------------------------------ endpoint ------------------------------ *)

\* main: the logger is set and HttpServer::new(..).bind(..).run() serves;
\* nothing in it refers to WALKER
Start ==
    /\ pc = "startup"
    /\ pc' = "validate"
    /\ UNCHANGED << matrix, round, pending, bufvars, hostvars, ret, http,
                    dispatched, reads, called, twin, failure, walker,
                    rwvars, peer >>

BadRequest(message) ==
    [code |-> 400, status |-> "error", message |-> message, path |-> << >>]

\* ValidationError with the "too big" arm moved in front of "not square"
ValidationErrorReordered(m) ==
    IF Len(m.data) = 0 THEN "The matrix is empty"
    ELSE IF m.height > MaxWidth THEN "The matrix is too big"
    ELSE IF m.height # m.width THEN "The matrix is not square"
    ELSE IF m.width * m.height # Len(m.data)
         THEN "The matrix size and dimensions are not the same"
    ELSE ""

\* the match of sortest_path_endpoint: the message of the first arm whose
\* guard holds, "" when the last arm is taken
ValidationError(m) ==
    IF Len(m.data) = 0 THEN "The matrix is empty"
    ELSE IF m.height # m.width THEN "The matrix is not square"
    ELSE IF m.height > MaxWidth THEN "The matrix is too big"
    ELSE IF m.width * m.height # Len(m.data)
         THEN "The matrix size and dimensions are not the same"
    ELSE ""

\* a validation arm answers 400
Reject ==
    /\ pc = "validate"
    /\ ValidationError(matrix) # ""
    /\ http' = BadRequest(ValidationError(matrix))
    /\ pc' = "responded"
    /\ UNCHANGED << matrix, round, pending, bufvars, hostvars, ret,
                    dispatched, reads, called, twin, failure, walker,
                    rwvars, peer >>

\* the last arm evaluates WALKER.get_sortest_path(matrix): the first use of
\* WALKER runs SortestPath::new, and one of its unwraps panics
AcceptWalkerFails ==
    /\ pc = "validate"
    /\ ValidationError(matrix) = ""
    /\ walker = "uninit"
    /\ walker' \in WalkerFailures
    /\ called' = TRUE
    /\ pc' = "panic"
    /\ UNCHANGED << matrix, round, pending, bufvars, hostvars, ret, http,
                    dispatched, reads, twin, failure, rwvars, peer >>

\* the last arm calls WALKER.get_sortest_path(matrix): the first use of
\* WALKER builds the session; host vectors are vec![0.0; width], the device
\* buffers are built without contents
Accept ==
    /\ pc = "validate"
    /\ ValidationError(matrix) = ""
    /\ walker' = "ready"
    /\ h_result' = [x \in Lanes |-> 0]
    /\ h_vertex' = [x \in Lanes |-> 0]
    /\ h_distance' = [x \in Lanes |-> 0]
    /\ result' = [x \in Lanes |-> Unset]
    /\ distance' = [x \in Lanes |-> Unset]
    /\ visited' = [x \in Lanes |-> Unset]
    /\ vertex' = [x \in Lanes |-> Unset]
    /\ vertex_temp' = [x \in Lanes |-> Unset]
    /\ twin' = [result |-> [x \in Lanes |-> Unset],
                distance |-> [x \in Lanes |-> Unset],
                visited |-> [x \in Lanes |-> Unset],
                vertex |-> [x \in Lanes |-> Unset],
                vertex_temp |-> [x \in Lanes |-> Unset]]
    /\ called' = TRUE
    /\ pc' = "enq_init"
    /\ UNCHANGED << matrix, round, pending, ret, http, dispatched, reads,
                    failure, rwvars, peer >>

(* ------------------------- get_sortest_path --------------------------- *)

Err(status) == [kind |-> "Err", path |-> << >>, status |-> status]
Ok(path) == [kind |-> "Ok", path |-> path, status |-> ""]

\* initialize_algorithm_buffers.enq() succeeds
EnqInit ==
    /\ pc = "enq_init"
    /\ dispatched' = Append(dispatched, "Init")
    /\ pending' = Lanes
    /\ twin' = InitFrom(twin, 0, matrix.width)
    /\ pc' = "run_init"
    /\ UNCHANGED << matrix, round, bufvars, hostvars, ret, http, reads, called,
                    failure, walker,
                    rwvars, peer >>

\* initialize_algorithm_buffers.enq() fails: process_kernel_result returns
\* Err(e), which is the value of get_sortest_path
EnqInitFails ==
    /\ pc = "enq_init"
    /\ \E s \in DeviceStatuses :
          /\ failure' = [stage |-> "Init", status |-> s]
          /\ ret' = Err(s)
    /\ pc' = "ret"
    /\ UNCHANGED << matrix, round, pending, bufvars, hostvars, http,
                    dispatched, reads, called, twin, walker,
                    rwvars, peer >>

LaneInit(gid) ==
    /\ pc = "run_init"
    /\ gid \in pending
    /\ SetBufs(InitLane(Bufs, gid))
    /\ pending' = pending \ {gid}
    /\ pc' = IF pending' = {} THEN "loop" ELSE pc
    /\ UNCHANGED << matrix, round, hostvars, ret, http, dispatched, reads,
                    called, twin, failure, walker,
                    rwvars, peer >>

\* shortest_path_algorithm.enq() succeeds, in an iteration of the for loop
EnqRelax ==
    /\ pc = "loop"
    /\ round < matrix.width
    /\ dispatched' = Append(dispatched, "Relax")
    /\ pending' = Lanes
    /\ twin' = RelaxFrom(matrix, twin, 0)
    /\ pc' = "run_relax"
    /\ UNCHANGED << matrix, round, bufvars, hostvars, ret, http, reads, called,
                    failure, walker,
                    rwvars, peer >>

\* shortest_path_algorithm.enq() fails: process_kernel_result yields Err(e)
\* and .expect("Error while merging the sortest path") panics
EnqRelaxFails ==
    /\ pc = "loop"
    /\ round < matrix.width
    /\ \E s \in DeviceStatuses : failure' = [stage |-> "Relax", status |-> s]
    /\ pc' = "panic"
    /\ UNCHANGED << matrix, round, pending, bufvars, hostvars, ret, http,
                    dispatched, reads, called, twin, walker,
                    rwvars, peer >>

LaneRelax(gid) ==
    /\ pc = "run_relax"
    /\ gid \in pending
    /\ SetBufs(RelaxLane(matrix, Bufs, gid))
    /\ pending' = pending \ {gid}
    /\ pc' = IF pending' = {} THEN "enq_merge" ELSE pc
    /\ UNCHANGED << matrix, round, hostvars, ret, http, dispatched, reads,
                    called, twin, failure, walker,
                    rwvars, peer >>

\* merge_sortest_path.enq() succeeds
EnqMerge ==
    /\ pc = "enq_merge"
    /\ dispatched' = Append(dispatched, "Merge")
    /\ pending' = Lanes
    /\ twin' = MergeFrom(twin, 0, matrix.width)
    /\ pc' = "run_merge"
    /\ UNCHANGED << matrix, round, bufvars, hostvars, ret, http, reads, called,
                    failure, walker,
                    rwvars, peer >>

\* EnqMergeFails with the error only logged: the iteration goes on to its reads
EnqMergeFailsIgnored ==
    /\ pc = "enq_merge"
    /\ \E s \in DeviceStatuses : failure' = [stage |-> "Merge", status |-> s]
    /\ pc' = "read"
    /\ UNCHANGED << matrix, round, pending, bufvars, hostvars, ret, http,
                    dispatched, reads, called, twin, walker,
                    rwvars, peer >>

\* merge_sortest_path.enq() fails: Err(e) reaches the same expect
EnqMergeFails ==
    /\ pc = "enq_merge"
    /\ \E s \in DeviceStatuses : failure' = [stage |-> "Merge", status |-> s]
    /\ pc' = "panic"
    /\ UNCHANGED << matrix, round, pending, bufvars, hostvars, ret, http,
                    dispatched, reads, called, twin, walker,
                    rwvars, peer >>

LaneMerge(gid) ==
    /\ pc = "run_merge"
    /\ gid \in pending
    /\ SetBufs(MergeLane(Bufs, gid))
    /\ pending' = pending \ {gid}
    /\ pc' = IF pending' = {} THEN "read" ELSE pc
    /\ UNCHANGED << matrix, round, hostvars, ret, http, dispatched, reads,
                    called, twin, failure, walker,
                    rwvars, peer >>

\* result_buffer.read, vertex_buffer.read, distance_buffer.read all succeed;
\* the closure returns the dummy Ok and the iteration ends
ReadBack ==
    /\ pc = "read"
    /\ h_result' = result
    /\ h_vertex' = vertex
    /\ h_distance' = distance
    /\ reads' = reads + 3
    /\ round' = round + 1
    /\ pc' = "loop"
    /\ UNCHANGED << matrix, pending, bufvars, ret, http, dispatched, called,
                    twin, failure, walker,
                    rwvars, peer >>

\* the first `done` reads succeed and the next one fails: ? leaves the
\* closure with Err(e), and expect panics
ReadFails ==
    /\ pc = "read"
    /\ \E done \in 0..2 :
          /\ h_result' = IF done >= 1 THEN result ELSE h_result
          /\ h_vertex' = IF done >= 2 THEN vertex ELSE h_vertex
          /\ reads' = reads + done
    /\ \E s \in DeviceStatuses : failure' = [stage |-> "Read", status |-> s]
    /\ pc' = "panic"
    /\ UNCHANGED << matrix, round, pending, bufvars, h_distance, ret, http,
                    dispatched, called, twin, walker,
                    rwvars, peer >>

\* PathResult(vertex[x] as i32, distance[x]) for x in 0..matrix.width
ResultPath(hv, hd, width) == [x \in 1..width |-> << hv[x - 1], hd[x - 1] >>]

\* Finish with a convergence test: the loop is left as soon as one more round
\* would change no result
FinishConverged ==
    /\ pc = "loop"
    /\ \/ round >= matrix.width
       \/ round >= 1 /\ OneRound(matrix, Bufs).result = result
    /\ ret' = Ok(ResultPath(h_vertex, h_distance, matrix.width))
    /\ pc' = "ret"
    /\ UNCHANGED << matrix, round, pending, bufvars, hostvars, http,
                    dispatched, reads, called, twin, failure, walker,
                    rwvars, peer >>

\* after the loop: build result_path and return Ok(result_path)
Finish ==
    /\ pc = "loop"
    /\ round >= matrix.width
    /\ ret' = Ok(ResultPath(h_vertex, h_distance, matrix.width))
    /\ pc' = "ret"
    /\ UNCHANGED << matrix, round, pending, bufvars, hostvars, http,
                    dispatched, reads, called, twin, failure, walker,
                    rwvars, peer >>

\* the match on the value of get_sortest_path in the endpoint
Respond ==
    /\ pc = "ret"
    /\ http' = IF ret.kind = "Ok"
               THEN [code |-> 200, status |-> "ok", message |-> "",
                     path |-> ret.path]
               ELSE [code |-> 502, status |-> "error", message |-> ret.status,
                     path |-> << >>]
    /\ pc' = "responded"
    /\ UNCHANGED << matrix, round, pending, bufvars, hostvars, ret,
                    dispatched, reads, called, twin, failure, walker,
                    rwvars, peer >>

(* ------------- the kernels, one read or write group per step ---------- *)

\* In SpecRW a lane is not one step: it runs through the statements of its
\* kernel, and the steps of the lanes of a dispatch interleave.  regs[gid]
\* holds what lane gid keeps in private variables (where it is, edge, dist).

\* the step is the first one of its dispatch
Fresh == pending = Lanes /\ DOMAIN regs = {}

\* lane gid reads the cells R and writes the cells W, << buffer, index >>
Touch(gid, R, W) ==
    /\ rset' = (IF Fresh THEN {} ELSE rset) \cup { << c[1], c[2], gid >> : c \in R }
    /\ wset' = (IF Fresh THEN {} ELSE wset) \cup { << c[1], c[2], gid >> : c \in W }

\* lane gid goes on with private variables r
SetReg(gid, r) ==
    /\ regs' = [g \in DOMAIN regs \cup {gid} |-> IF g = gid THEN r ELSE regs[g]]
    /\ UNCHANGED << pending, pc >>

\* lane gid has reached the end of its kernel; the last lane of the dispatch
\* lets the host go on at `next`
Retire(gid, next) ==
    /\ regs' = [g \in DOMAIN regs \ {gid} |-> regs[g]]
    /\ pending' = pending \ {gid}
    /\ pc' = IF pending' = {} THEN next ELSE pc

\* the end of one iteration of the for loop of lane gid: edge++ and the test
\* edge < vertex_count
NextEdge(gid, edge) ==
    IF edge + 1 < vertex_count
    THEN SetReg(gid, [at |-> "scan", edge |-> edge + 1, dist |-> 0])
    ELSE Retire(gid, "enq_merge")

\* initialize_algorithm_buffers, lane gid: the five assignments
RwInit(gid) ==
    /\ pc = "run_init"
    /\ gid \in pending
    /\ SetBufs(InitLane(Bufs, gid))
    /\ Touch(gid, {}, { << "visited", gid >>, << "result", gid >>,
                        << "distance", gid >>, << "vertex", gid >>,
                        << "vertex_temp", gid >> })
    /\ Retire(gid, "loop")
    /\ UNCHANGED << matrix, round, hostvars, ret, http, dispatched, reads,
                    called, twin, failure, walker, peer >>

\* shortest_path_algorithm, lane gid: if (visited[gid] != 1) visited[gid] = 1
RwRelaxStart(gid) ==
    /\ pc = "run_relax"
    /\ gid \in pending
    /\ gid \notin DOMAIN regs
    /\ IF visited[gid] # 1
       THEN /\ visited' = [visited EXCEPT ![gid] = 1]
            /\ Touch(gid, { << "visited", gid >> }, { << "visited", gid >> })
            /\ SetReg(gid, [at |-> "scan", edge |-> 0, dist |-> 0])
       ELSE /\ visited' = visited
            /\ Touch(gid, { << "visited", gid >> }, {})
            /\ Retire(gid, "enq_merge")
    /\ UNCHANGED << matrix, round, result, distance, vertex, vertex_temp,
                    hostvars, ret, http, dispatched, reads, called, twin,
                    failure, walker, peer >>

\* lane gid, one iteration up to its test: weight, dist = result[edge] + weight
\* and distance[gid] == 0.0 || result[gid] > dist
RwRelaxLoad(gid) ==
    /\ pc = "run_relax"
    /\ gid \in DOMAIN regs
    /\ regs[gid].at = "scan"
    /\ LET edge == regs[gid].edge
           weight == Weight(matrix, gid, edge)
           dist == FAdd(result[edge], weight)
       IN  IF ValidEdge(weight)
           THEN /\ Touch(gid, { << "result", edge >>, << "distance", gid >> }
                              \cup (IF distance[gid] = 0 THEN {}
                                    ELSE { << "result", gid >> }), {})
                /\ IF distance[gid] = 0 \/ result[gid] > dist
                   THEN SetReg(gid, [at |-> "store", edge |-> edge,
                                     dist |-> dist])
                   ELSE NextEdge(gid, edge)
           ELSE /\ Touch(gid, {}, {})
                /\ NextEdge(gid, edge)
    /\ UNCHANGED << matrix, round, bufvars, hostvars, ret, http, dispatched,
                    reads, called, twin, failure, walker, peer >>

\* RwRelaxStore fused with the commit of merge_sortest_path: the lane also
\* writes result[gid]
RwRelaxStoreFused(gid) ==
    /\ pc = "run_relax"
    /\ gid \in DOMAIN regs
    /\ regs[gid].at = "store"
    /\ distance' = [distance EXCEPT ![gid] = regs[gid].dist]
    /\ vertex_temp' = [vertex_temp EXCEPT ![gid] = regs[gid].edge]
    /\ result' = [result EXCEPT ![gid] = regs[gid].dist]
    /\ Touch(gid, {}, { << "distance", gid >>, << "vertex_temp", gid >>,
                        << "result", gid >> })
    /\ NextEdge(gid, regs[gid].edge)
    /\ UNCHANGED << matrix, round, visited, vertex, hostvars, ret,
                    http, dispatched, reads, called, twin, failure, walker, peer >>

\* lane gid, the body of the test: distance[gid] = dist; vertex_temp[gid] = edge
RwRelaxStore(gid) ==
    /\ pc = "run_relax"
    /\ gid \in DOMAIN regs
    /\ regs[gid].at = "store"
    /\ distance' = [distance EXCEPT ![gid] = regs[gid].dist]
    /\ vertex_temp' = [vertex_temp EXCEPT ![gid] = regs[gid].edge]
    /\ Touch(gid, {}, { << "distance", gid >>, << "vertex_temp", gid >> })
    /\ NextEdge(gid, regs[gid].edge)
    /\ UNCHANGED << matrix, round, result, visited, vertex, hostvars, ret,
                    http, dispatched, reads, called, twin, failure, walker, peer >>

\* merge_sortest_path, lane gid: the test result[gid] > distance[gid]
RwMergeTest(gid) ==
    /\ pc = "run_merge"
    /\ gid \in pending
    /\ gid \notin DOMAIN regs
    /\ Touch(gid, { << "result", gid >>, << "distance", gid >> }, {})
    /\ SetReg(gid, [at |-> IF result[gid] > distance[gid] THEN "commit"
                           ELSE "reset",
                    edge |-> 0, dist |-> 0])
    /\ UNCHANGED << matrix, round, bufvars, hostvars, ret, http, dispatched,
                    reads, called, twin, failure, walker, peer >>

\* RwMergeCommit that also clears the candidate it has committed:
\* distance[gid] = 0
RwMergeCommitClears(gid) ==
    /\ pc = "run_merge"
    /\ gid \in DOMAIN regs
    /\ regs[gid].at = "commit"
    /\ result' = [result EXCEPT ![gid] = distance[gid]]
    /\ vertex' = [vertex EXCEPT ![gid] = vertex_temp[gid]]
    /\ distance' = [distance EXCEPT ![gid] = 0]
    /\ Touch(gid, { << "distance", gid >>, << "vertex_temp", gid >> },
                  { << "result", gid >>, << "vertex", gid >>,
                    << "distance", gid >> })
    /\ SetReg(gid, [at |-> "reset", edge |-> 0, dist |-> 0])
    /\ UNCHANGED << matrix, round, visited, vertex_temp, hostvars,
                    ret, http, dispatched, reads, called, twin, failure,
                    walker, peer >>

\* lane gid: result[gid] = distance[gid]; vertex[gid] = vertex_temp[gid]
RwMergeCommit(gid) ==
    /\ pc = "run_merge"
    /\ gid \in DOMAIN regs
    /\ regs[gid].at = "commit"
    /\ result' = [result EXCEPT ![gid] = distance[gid]]
    /\ vertex' = [vertex EXCEPT ![gid] = vertex_temp[gid]]
    /\ Touch(gid, { << "distance", gid >>, << "vertex_temp", gid >> },
                  { << "result", gid >>, << "vertex", gid >> })
    /\ SetReg(gid, [at |-> "reset", edge |-> 0, dist |-> 0])
    /\ UNCHANGED << matrix, round, distance, visited, vertex_temp, hostvars,
                    ret, http, dispatched, reads, called, twin, failure,
                    walker, peer >>

\* lane gid: if (gid != 0) visited[gid] = 0
RwMergeReset(gid) ==
    /\ pc = "run_merge"
    /\ gid \in DOMAIN regs
    /\ regs[gid].at = "reset"
    /\ visited' = IF gid # 0 THEN [visited EXCEPT ![gid] = 0] ELSE visited
    /\ Touch(gid, {}, IF gid # 0 THEN { << "visited", gid >> } ELSE {})
    /\ Retire(gid, "read")
    /\ UNCHANGED << matrix, round, result, distance, vertex, vertex_temp,
                    hostvars, ret, http, dispatched, reads, called, twin,
                    failure, walker, peer >>

(* ---------------- a second request on the shared session -------------- *)

\* In SpecPair a second request (the peer) is served while the first one
\* runs.  Both use the queue of WALKER, which is in-order: a dispatch of the
\* peer runs when no lane of a dispatch of the first request is pending, and
\* is one step, its lanes in ascending order.  The buffers of the first
\* request are the buffer set "own", those of the peer the buffer set "peer".

\* the variables that are not the device buffers of the first request
nonbufvars == << matrix, pc, round, pending, hostvars, ret, http, dispatched,
                 reads, called, twin, failure, regs, rset, wset >>

\* the buffer set h in device memory
Mem(h) == IF h = "own" THEN Bufs ELSE peer.bufs

\* KernelArgs with the kernels kept in the session and shared by the
\* requests: they are bound to the buffers of the first request whenever
\* those have the size of the peer's
KernelArgsShared(r) ==
    IF DOMAIN result = DOMAIN peer.bufs.result THEN "own" ELSE r

\* the buffer set the kernels of request r are bound to: each call of
\* get_sortest_path builds its kernels with .arg(&..) of the buffers it has
\* just built
KernelArgs(r) == r

\* a dispatch of the peer has left b in the buffer set h; next is the peer
\* after it
PeerWrites(h, b, next) ==
    /\ peer' = IF h = "peer" THEN [next EXCEPT !.bufs = b] ELSE next
    /\ IF h = "own" THEN SetBufs(b) ELSE UNCHANGED bufvars

\* the endpoint accepts the peer's body and get_sortest_path allocates its
\* host vectors and buffers
PeerAccept ==
    /\ pc # "startup"
    /\ peer.pc = "none"
    /\ walker \notin WalkerFailures
    /\ walker' = "ready"
    /\ \E m \in PeerRequests :
          peer' = [pc |-> "enq_init", matrix |-> m, round |-> 0,
                   bufs |-> [result |-> [x \in 0..(m.width - 1) |-> Unset],
                             distance |-> [x \in 0..(m.width - 1) |-> Unset],
                             visited |-> [x \in 0..(m.width - 1) |-> Unset],
                             vertex |-> [x \in 0..(m.width - 1) |-> Unset],
                             vertex_temp |-> [x \in 0..(m.width - 1) |-> Unset]],
                   alone |-> [result |-> [x \in 0..(m.width - 1) |-> Unset],
                              distance |-> [x \in 0..(m.width - 1) |-> Unset],
                              visited |-> [x \in 0..(m.width - 1) |-> Unset],
                              vertex |-> [x \in 0..(m.width - 1) |-> Unset],
                              vertex_temp |-> [x \in 0..(m.width - 1) |-> Unset]],
                   h_vertex |-> [x \in 0..(m.width - 1) |-> 0],
                   h_distance |-> [x \in 0..(m.width - 1) |-> 0],
                   ret |-> NoRet]
    /\ UNCHANGED << nonbufvars, bufvars >>

\* the peer's initialize_algorithm_buffers runs on the queue
PeerInit ==
    /\ peer.pc = "enq_init"
    /\ pending = {}
    /\ LET h == KernelArgs("peer")
       IN  PeerWrites(h, InitFrom(Mem(h), 0, peer.matrix.width),
                      [peer EXCEPT !.pc = "loop",
                                   !.alone = InitFrom(@, 0, peer.matrix.width)])
    /\ UNCHANGED << nonbufvars, walker >>

\* the peer's shortest_path_algorithm runs on the queue
PeerRelax ==
    /\ peer.pc = "loop"
    /\ peer.round < peer.matrix.width
    /\ pending = {}
    /\ LET h == KernelArgs("peer")
       IN  PeerWrites(h, RelaxFrom(peer.matrix, Mem(h), 0),
                      [peer EXCEPT !.pc = "enq_merge",
                                   !.alone = RelaxFrom(peer.matrix, @, 0)])
    /\ UNCHANGED << nonbufvars, walker >>

\* the peer's merge_sortest_path runs on the queue
PeerMerge ==
    /\ peer.pc = "enq_merge"
    /\ pending = {}
    /\ LET h == KernelArgs("peer")
       IN  PeerWrites(h, MergeFrom(Mem(h), 0, peer.matrix.width),
                      [peer EXCEPT !.pc = "read",
                                   !.alone = MergeFrom(@, 0, peer.matrix.width)])
    /\ UNCHANGED << nonbufvars, walker >>

\* the peer reads its vertex and distance buffers back and ends the iteration
PeerRead ==
    /\ peer.pc = "read"
    /\ pending = {}
    /\ peer' = [peer EXCEPT !.h_vertex = peer.bufs.vertex,
                            !.h_distance = peer.bufs.distance,
                            !.round = @ + 1,
                            !.pc = "loop"]
    /\ UNCHANGED << nonbufvars, bufvars, walker >>

\* the peer's loop is over: its get_sortest_path returns Ok(result_path)
PeerFinish ==
    /\ peer.pc = "loop"
    /\ peer.round >= peer.matrix.width
    /\ peer' = [peer EXCEPT !.ret = Ok(ResultPath(peer.h_vertex,
                                                  peer.h_distance,
                                                  peer.matrix.width)),
                            !.pc = "ret"]
    /\ UNCHANGED << nonbufvars, bufvars, walker >>

(* --------------------------- specification ---------------------------- *)

Init ==
    /\ matrix \in Requests
    /\ pc = "startup"
    /\ round = 0
    /\ pending = {}
    /\ result = << >>
    /\ distance = << >>
    /\ visited = << >>
    /\ vertex = << >>
    /\ vertex_temp = << >>
    /\ h_result = << >>
    /\ h_vertex = << >>
    /\ h_distance = << >>
    /\ ret = NoRet
    /\ http = NoHttp
    /\ dispatched = << >>
    /\ reads = 0
    /\ called = FALSE
    /\ twin = [result |-> << >>, distance |-> << >>, visited |-> << >>,
               vertex |-> << >>, vertex_temp |-> << >>]
    /\ failure = NoFailure
    /\ walker = "uninit"
    /\ regs = [gid \in {} |-> 0]
    /\ rset = {}
    /\ wset = {}
    /\ peer = NoPeer

Next ==
    \/ Start
    \/ Reject
    \/ AcceptWalkerFails
    \/ Accept
    \/ EnqInit
    \/ EnqInitFails
    \/ \E gid \in pending : LaneInit(gid)
    \/ EnqRelax
    \/ EnqRelaxFails
    \/ \E gid \in pending : LaneRelax(gid)
    \/ EnqMerge
    \/ EnqMergeFails
    \/ \E gid \in pending : LaneMerge(gid)
    \/ ReadBack
    \/ ReadFails
    \/ Finish
    \/ Respond

Spec == Init /\ [][Next]_vars

\* the requests of SpecRW
RaceRequests == {Undirected4, ZeroRow3, Sentinel3, Huge2, Negative3,
                 InvalidTestMatrix}

InitRW == Init /\ matrix \in RaceRequests

\* Next with the lanes of every dispatch run statement by statement
NextRW ==
    \/ Start
    \/ Reject
    \/ AcceptWalkerFails
    \/ Accept
    \/ EnqInit
    \/ EnqInitFails
    \/ \E gid \in Lanes : RwInit(gid)
    \/ EnqRelax
    \/ EnqRelaxFails
    \/ \E gid \in Lanes : RwRelaxStart(gid)
    \/ \E gid \in Lanes : RwRelaxLoad(gid)
    \/ \E gid \in Lanes : RwRelaxStore(gid)
    \/ EnqMerge
    \/ EnqMergeFails
    \/ \E gid \in Lanes : RwMergeTest(gid)
    \/ \E gid \in Lanes : RwMergeCommit(gid)
    \/ \E gid \in Lanes : RwMergeReset(gid)
    \/ ReadBack
    \/ ReadFails
    \/ Finish
    \/ Respond

SpecRW == InitRW /\ [][NextRW]_vars

\* the first requests of SpecPair
PairRequests == {ZeroRow3, Negative3, Huge2, InvalidTestMatrix}

InitPair == Init /\ matrix \in PairRequests

\* Next with the steps of the second request
NextPair ==
    \/ Next
    \/ PeerAccept
    \/ PeerInit
    \/ PeerRelax
    \/ PeerMerge
    \/ PeerRead
    \/ PeerFinish

SpecPair == InitPair /\ [][NextPair]_vars

(* ---------------------- shortest paths, by definition ----------------- *)

Min(a, b) == IF a <= b THEN a ELSE b

\* the least D[e] + weight(v,e) over the valid edges e < k of row v
RECURSIVE BestVia(_, _, _, _)
BestVia(m, D, v, k) ==
    IF k = 0 THEN FLT_MAX
    ELSE LET e == k - 1
             w == Weight(m, v, e)
             c == IF ValidEdge(w) /\ D[e] < FLT_MAX THEN D[e] + w ELSE FLT_MAX
         IN  Min(c, BestVia(m, D, v, e))

\* lengths of the shortest paths of at most k edges from vertex 0
RECURSIVE Shortest(_, _)
Shortest(m, k) ==
    IF k = 0 THEN [v \in 0..(m.width - 1) |-> IF v = 0 THEN 0 ELSE FLT_MAX]
    ELSE LET D == Shortest(m, k - 1)
         IN  [v \in 0..(m.width - 1) |-> Min(D[v], BestVia(m, D, v, m.width))]

ShortestDistance(m) == Shortest(m, m.width)

(* ------------------------------- claims ------------------------------- *)

\* every entry is 0 or a positive weight below the sentinel, or the sentinel
NonNegativeWeights ==
    \A i \in 1..Len(matrix.data) : matrix.data[i] >= 0 /\ matrix.data[i] <= FLT_MAX

\* every entry is 0 or a positive weight whose sums stay far below FLT_MAX
SmallWeights ==
    \A i \in 1..Len(matrix.data) : matrix.data[i] >= 0 /\ matrix.data[i] < Ulp

InitDone == called /\ Len(dispatched) >= 1 /\ pc # "run_init"

Returned == ret.kind = "Ok"

\* C1: the distance returned for every vertex reachable from vertex 0 is the
\* length of the shortest path from 0 to it.
C1_ShortestDistances ==
    (Returned /\ SmallWeights) =>
        \A v \in Lanes :
            ShortestDistance(matrix)[v] < FLT_MAX
                => ret.path[v + 1][2] = ShortestDistance(matrix)[v]

\* C2: after the N rounds of the controller the result and predecessor
\* buffers are a fixed point: one more Relax+Merge round changes neither.
C2_FixedPointAfterNRounds ==
    (pc = "loop" /\ round = matrix.width /\ NonNegativeWeights) =>
        LET b == OneRound(matrix, Bufs)
        IN  b.result = result /\ b.vertex = vertex

\* C3: after Init and after every round, a vertex with no valid edge to any
\* vertex of finite distance (a row without valid edges included) has the
\* sentinel as its result and 0 as its committed predecessor.
C3_UnreachableKeepsSentinel ==
    (pc = "loop" /\ NonNegativeWeights) =>
        \A v \in Lanes \ {0} :
            (\A e \in Lanes :
                ValidEdge(Weight(matrix, v, e)) => result[e] = FLT_MAX)
                => (result[v] = FLT_MAX /\ vertex[v] = 0)

\* C4: a failing Init, Relax or Merge dispatch or buffer read, in any round,
\* makes get_sortest_path return that device error as Err, and the endpoint
\* answers 502 with the device status string.
C4_DeviceErrorIsReturned ==
    failure # NoFailure =>
        /\ ret = Err(failure.status)
        /\ pc \in {"ret", "responded"}
        /\ pc = "responded" => (http.code = 502 /\ http.message = failure.status)

ExpectedDispatches(n) ==
    [i \in 1..(2 * n + 1) |->
        IF i = 1 THEN "Init" ELSE IF i % 2 = 0 THEN "Relax" ELSE "Merge"]

\* C5: a path table is returned only when Init, all N Relax, all N Merge
\* dispatches and every read succeeded; otherwise no path table is returned.
C5_NoPartialResults ==
    /\ Returned =>
          /\ failure = NoFailure
          /\ dispatched = ExpectedDispatches(matrix.width)
          /\ reads = 3 * matrix.width
          /\ Len(ret.path) = matrix.width
    /\ http.code = 200 => Returned
    /\ failure # NoFailure => (~Returned /\ http.path = << >>)

C5_Witness ==
    /\ pc = "responded"
    /\ http.code = 200
    /\ matrix.width >= 3
    /\ reads = 3 * matrix.width

\* C6: the four rules are taken in the order empty, not square, too big,
\* size mismatch; the answer is 400 with the message of the first rule that
\* fails; the core is called exactly when none fails, so then
\* 1 <= width = height <= 128 and data.length = width * height.
C6_ValidationOrder ==
    pc \notin {"startup", "validate"} =>
        LET empty == Len(matrix.data) = 0
            notSquare == matrix.width # matrix.height
            tooBig == matrix.width > 128
            mismatch == matrix.width * matrix.height # Len(matrix.data)
            answered(msg) == pc = "responded" /\ http = BadRequest(msg)
        IN  /\ empty => answered("The matrix is empty")
            /\ (~empty /\ notSquare) => answered("The matrix is not square")
            /\ (~empty /\ ~notSquare /\ tooBig)
                    => answered("The matrix is too big")
            /\ (~empty /\ ~notSquare /\ ~tooBig /\ mismatch)
                    => answered("The matrix size and dimensions are not the same")
            /\ called <=> ~(empty \/ notSquare \/ tooBig \/ mismatch)
            /\ called => /\ 1 <= matrix.width
                         /\ matrix.width = matrix.height
                         /\ matrix.width <= 128
                         /\ Len(matrix.data) = matrix.width * matrix.height

\* a body that breaks the second, third and fourth rule at once
C6_Witness ==
    /\ pc = "responded"
    /\ http.code = 400
    /\ Len(matrix.data) > 0
    /\ matrix.width # matrix.height
    /\ matrix.height > 128
    /\ matrix.width * matrix.height # Len(matrix.data)

\* C7: from the completion of Init on, result[0] = 0.
C7_SourceDistanceZero == InitDone => result[0] = 0

\* some round has committed a finite distance to another vertex
C7_Witness ==
    /\ InitDone
    /\ round >= 1
    /\ \E v \in Lanes \ {0} : result[v] > 0 /\ result[v] < FLT_MAX
    /\ result[0] = 0

\* C8: result[v] starts at the sentinel (0 for v = 0) and never increases.
C8_Monotonic ==
    /\ [](pc = "loop" /\ round = 0 =>
            result = [v \in Lanes |-> IF v = 0 THEN 0 ELSE FLT_MAX])
    /\ [][InitDone => \A v \in Lanes : result'[v] <= result[v]]_vars

\* a vertex whose result went down in two different rounds
C8_Witness ==
    /\ pc = "loop"
    /\ round >= 2
    /\ \E v \in Lanes \ {0} :
          /\ h_result[v] < FLT_MAX
          /\ Shortest(matrix, 1)[v] < FLT_MAX
          /\ h_result[v] < Shortest(matrix, 1)[v]

\* C9: on success the table has N entries in vertex order, entry v being
\* (predecessor[v], result[v]) of the buffers after the Nth Merge.
C9_TableIsCommittedBuffers ==
    Returned =>
        /\ Len(ret.path) = matrix.width
        /\ \A v \in Lanes : ret.path[v + 1] = << vertex[v], result[v] >>

\* C10: two runs on the same matrix return the same table whatever the order
\* of the lanes in each dispatch: the table of the run is the table of its
\* twin, whose dispatches take the lanes in ascending order.
C10_Deterministic ==
    Returned => ret.path = ResultPath(twin.vertex, twin.distance, matrix.width)

\* a Merge dispatch in which the last lane has run before lane 0
C10_Witness ==
    /\ pc = "run_merge"
    /\ matrix.width >= 3
    /\ 0 \in pending
    /\ (matrix.width - 1) \notin pending
    /\ round >= 1

\* C11: a failure to construct the device session happens at startup, before
\* the server accepts a request; it is never first observed while a request
\* is being handled.
C11_SessionFailsAtStartup == walker \in WalkerFailures => pc = "startup"

\* C12: in the returned table every vertex v # 0 with a finite distance has a
\* predecessor p such that the edge (v,p) is valid and
\* distance[v] = distance[p] + weight(v,p), distances taken from the table.
C12_PredecessorOnBestPath ==
    (Returned /\ SmallWeights) =>
        \A v \in Lanes \ {0} :
            LET p == ret.path[v + 1][1]
                d == ret.path[v + 1][2]
            IN  d < FLT_MAX =>
                    /\ p \in Lanes
                    /\ ValidEdge(Weight(matrix, v, p))
                    /\ d = FAdd(ret.path[p + 1][2], Weight(matrix, v, p))

IsPrefix(s, t) == Len(s) <= Len(t) /\ s = SubSeq(t, 1, Len(s))

\* C13: without a device error the dispatches of a request are Init, then
\* N times (Relax, Merge): Init once and first, each Relax followed by its
\* Merge, N rounds whether or not a value changed, and no dispatch begins
\* before every lane of the previous one has finished.
C13_DispatchSequence ==
    /\ [](failure = NoFailure =>
            /\ IsPrefix(dispatched, ExpectedDispatches(matrix.width))
            /\ pc = "loop" => Len(dispatched) = 1 + 2 * round
            /\ (walker = "ready" /\ pc \in {"ret", "responded"}) =>
                    dispatched = ExpectedDispatches(matrix.width))
    /\ [][dispatched' # dispatched =>
            /\ pending = {}
            /\ Len(dispatched') = Len(dispatched) + 1]_vars

\* a request answered after its three rounds although the results had
\* already stopped changing
C13_Witness ==
    /\ pc = "responded"
    /\ http.code = 200
    /\ matrix.width = 3
    /\ OneRound(matrix, Bufs).result = result
    /\ dispatched = ExpectedDispatches(3)
    /\ \E v \in Lanes \ {0} : result[v] = FLT_MAX

\* result[e] + weight(v,e) for the valid edges e of row v
Candidates(m, b, v) ==
    { FAdd(b.result[e], Weight(m, v, e)) :
        e \in { x \in 0..(m.width - 1) : ValidEdge(Weight(m, v, x)) } }

\* C14: after Relax, every lane v that was unvisited on entry and has a valid
\* edge holds in distance[v] the minimum of result[e] + weight(v,e) over its
\* valid edges e, and predecessorCandidate[v] is an edge that attains it.
C14_RelaxKeepsMinimum ==
    [][(pc = "run_relax" /\ SmallWeights) =>
        \A v \in Lanes :
            (visited[v] # 1 /\ visited'[v] = 1
                    /\ Candidates(matrix, Bufs, v) # {}) =>
                /\ \A c \in Candidates(matrix, Bufs, v) : distance'[v] <= c
                /\ ValidEdge(Weight(matrix, v, vertex_temp'[v]))
                /\ distance'[v] = FAdd(result[vertex_temp'[v]],
                                       Weight(matrix, v, vertex_temp'[v]))]_vars

Cells == {"result", "distance", "visited", "vertex", "vertex_temp"} \X Lanes

CellOf(c) ==
    CASE c[1] = "result" -> << result[c[2]], result'[c[2]] >>
      [] c[1] = "distance" -> << distance[c[2]], distance'[c[2]] >>
      [] c[1] = "visited" -> << visited[c[2]], visited'[c[2]] >>
      [] c[1] = "vertex" -> << vertex[c[2]], vertex'[c[2]] >>
      [] OTHER -> << vertex_temp[c[2]], vertex_temp'[c[2]] >>

\* every cell whose value the step changes is in wset after the step
ChangesInWset ==
    \A c \in Cells :
        CellOf(c)[1] # CellOf(c)[2] =>
            \E w \in wset' : w[1] = c[1] /\ w[2] = c[2]

\* C15: within a dispatch each lane writes only its own index, no cell
\* written by one lane is read or written by another lane of the dispatch,
\* and the buffers after the dispatch are the same for every interleaving of
\* the lanes' reads and writes (those of the run with ascending lanes).
C15_NoIntraStageRace ==
    /\ [](/\ \A w \in wset : w[2] = w[3]
          /\ \A w \in wset : \A a \in rset \cup wset :
                (a[1] = w[1] /\ a[2] = w[2]) => a[3] = w[3]
          /\ pc \in {"loop", "enq_merge", "read"} => Bufs = twin)
    /\ [][(pc = "run_init" \/ pc = "run_relax" \/ pc = "run_merge")
            => ChangesInWset]_vars

\* two lanes of a Relax dispatch stand before their store at once, after a
\* third lane has finished, in a round in which results are finite
C15_Witness ==
    /\ pc = "run_relax"
    /\ round >= 1
    /\ \E u, v \in DOMAIN regs :
          /\ u # v
          /\ regs[u].at = "store"
          /\ regs[v].at = "store"
          /\ ValidEdge(Weight(matrix, u, v))
    /\ \E x \in Lanes \ {0} : x \notin pending

\* C16: Merge commits exactly when the candidate is strictly better: a lane v
\* with distance[v] < result[v] leaves result[v] = distance[v] and
\* predecessor[v] = predecessorCandidate[v], any other lane leaves both
\* unchanged; so predecessor[v] changes only in a Merge in which result[v]
\* strictly decreases.
C16_MergeCommitsIffBetter ==
    /\ [][pc = "run_merge" =>
            \A v \in pending \ pending' :
                IF distance[v] < result[v]
                THEN result'[v] = distance[v] /\ vertex'[v] = vertex_temp[v]
                ELSE result'[v] = result[v] /\ vertex'[v] = vertex[v]]_vars
    /\ [][InitDone =>
            \A v \in Lanes :
                vertex'[v] # vertex[v] =>
                    (pc = "run_merge" /\ result'[v] < result[v])]_vars

\* a Merge of a later round in which one lane has committed a better
\* candidate with a new predecessor and another lane, whose candidate equals
\* its result, has left its cells alone
C16_Witness ==
    /\ pc = "run_merge"
    /\ round >= 1
    /\ \E v \in Lanes \ pending :
          /\ result[v] < h_result[v]
          /\ vertex[v] # h_vertex[v]
    /\ \E u \in Lanes \ (pending \cup {0}) :
          /\ distance[u] = result[u]
          /\ result[u] = h_result[u]
          /\ vertex_temp[u] # vertex[u]

\* C17: visited[0] is true from the completion of Init on; visited[v], v # 0,
\* is false after Init and after every Merge; so in every Relax dispatch each
\* lane v # 0 is unvisited on entry and scans its edges, and lane 0 does not.
C17_VisitedFlags ==
    /\ [](InitDone => visited[0] = 1)
    /\ []((pc = "loop" \/ pc = "read") =>
              \A v \in Lanes \ {0} : visited[v] = 0)
    /\ [][pc = "run_relax" =>
            \A v \in pending \ pending' :
                IF v = 0
                THEN UNCHANGED bufvars
                ELSE LET acc == ScanEdges(matrix, Bufs, v, 0,
                                          [distance |-> distance[v],
                                           vertex_temp |-> vertex_temp[v]])
                     IN  /\ visited[v] = 0
                         /\ visited'[v] = 1
                         /\ distance'[v] = acc.distance
                         /\ vertex_temp'[v] = acc.vertex_temp]_vars

\* a Relax dispatch of a later round: lane 0 has run, a lane whose scan found
\* a new candidate has run, and another lane has yet to run
C17_Witness ==
    /\ pc = "run_relax"
    /\ round >= 1
    /\ 0 \notin pending
    /\ visited[0] = 1
    /\ \E v \in Lanes \ (pending \cup {0}) :
          visited[v] = 1 /\ distance[v] # h_distance[v]
    /\ \E u \in pending : visited[u] = 0

\* the buffers as initialize_algorithm_buffers is to leave them
Initialised ==
    [result |-> [v \in Lanes |-> IF v = 0 THEN 0 ELSE FLT_MAX],
     distance |-> [v \in Lanes |-> 0],
     visited |-> [v \in Lanes |-> IF v = 0 THEN 1 ELSE 0],
     vertex |-> [v \in Lanes |-> 0],
     vertex_temp |-> [v \in Lanes |-> 0]]

\* C18: after the Init dispatch result[0] = 0 and visited[0] is true,
\* result[v] is the sentinel and visited[v] false for v # 0, and distance,
\* predecessor and predecessorCandidate are 0 everywhere; no Relax or Merge
\* is dispatched before Init has set every one of these cells.
C18_InitPostcondition ==
    /\ []((pc = "loop" /\ round = 0) => Bufs = Initialised)
    /\ [][(dispatched' # dispatched /\ dispatched # << >>) =>
            /\ dispatched[1] = "Init"
            /\ pending = {}
            /\ round = 0 /\ Len(dispatched) = 1 => Bufs = Initialised]_vars

\* the first Relax has just been enqueued on the initialised buffers of a
\* request with three vertices or more
C18_Witness ==
    /\ pc = "run_relax"
    /\ dispatched = << "Init", "Relax" >>
    /\ pending = Lanes
    /\ matrix.width >= 3
    /\ Bufs = Initialised

\* C19: two requests whose dispatches and reads interleave on the shared
\* queue each return the table they return when run alone.
C19_NoInterference ==
    /\ Returned =>
          ret.path = ResultPath(twin.vertex, twin.distance, matrix.width)
    /\ peer.ret.kind = "Ok" =>
          peer.ret.path = ResultPath(peer.alone.vertex, peer.alone.distance,
                                     peer.matrix.width)
    /\ peer.pc # "none" => peer.bufs = peer.alone
    /\ (pc = "loop" \/ pc = "enq_merge" \/ pc = "read") => Bufs = twin

\* both requests have returned a table, on different matrices of the same
\* size, after their rounds interleaved
C19_Witness ==
    /\ Returned
    /\ peer.ret.kind = "Ok"
    /\ matrix.width = peer.matrix.width
    /\ matrix # peer.matrix
    /\ ret.path # peer.ret.path

\* result and distance as they were on entry to the Relax of the current
\* round: those left by Init, or those read back at the end of the last round
RelaxEntry ==
    [result |-> IF round = 0 THEN Initialised.result ELSE h_result,
     distance |-> h_distance]

\* the scan of lane v in the Relax of the current round has assigned
\* distance[v] and vertex_temp[v]: some valid edge passed the test
Stored(v) ==
    \E e \in Lanes :
        /\ ValidEdge(Weight(matrix, v, e))
        /\ \/ RelaxEntry.distance[v] = 0
           \/ RelaxEntry.result[v] >
                  FAdd(RelaxEntry.result[e], Weight(matrix, v, e))

\* C20: whenever the Merge of a round changes result[v], the candidate it
\* commits was written by the Relax of the same round, not left over from
\* Init or from an earlier round.
C20_NoStaleCommit ==
    [][pc = "run_merge" =>
        \A v \in pending \ pending' :
            result'[v] # result[v] => Stored(v)]_vars

\* C21: a Relax dispatch leaves result, the committed predecessor and the
\* adjacency matrix unchanged and writes only visited, distance and
\* predecessorCandidate; a Merge dispatch leaves distance,
\* predecessorCandidate and the matrix unchanged and writes only result,
\* predecessor and visited; no stage modifies the matrix.
C21_StageFrames ==
    /\ [](pc = "enq_merge" =>
            \A w \in wset : w[1] \in {"visited", "distance", "vertex_temp"})
    /\ [](pc = "read" =>
            \A w \in wset : w[1] \in {"result", "vertex", "visited"})
    /\ [][pc = "run_relax" =>
            (result' = result /\ vertex' = vertex /\ matrix' = matrix)]_vars
    /\ [][pc = "run_merge" =>
            (distance' = distance /\ vertex_temp' = vertex_temp
                /\ matrix' = matrix)]_vars
    /\ [][matrix' = matrix]_vars
    /\ [][(pc = "run_init" \/ pc = "run_relax" \/ pc = "run_merge")
            => ChangesInWset]_vars

\* the Merge of a later round is over: a lane has committed a new result and
\* predecessor, after a Relax in which lanes stored candidates
C21_Witness ==
    /\ pc = "read"
    /\ round >= 1
    /\ \E v \in Lanes \ {0} :
          /\ << "result", v, v >> \in wset
          /\ << "vertex", v, v >> \in wset
          /\ << "visited", v, v >> \in wset
          /\ result[v] < h_result[v]
          /\ distance[v] = result[v]
          /\ vertex_temp[v] = vertex[v]

\* every entry is 0, the sentinel, or a positive weight that the sentinel
\* absorbs: FLT_MAX + weight == FLT_MAX
AbsorbedWeights ==
    \A i \in 1..Len(matrix.data) :
        /\ matrix.data[i] >= 0
        /\ ValidEdge(matrix.data[i]) => FAdd(FLT_MAX, matrix.data[i]) = FLT_MAX

\* C22: for entries that are 0 or positive weights with sentinel + weight
\* counted as the sentinel, distance[v] = result[v] for every v after every
\* Merge dispatch; so the distance buffer the host reads back, and the table
\* built from it, mirror the committed result.
C22_DistanceMirrorsResult ==
    AbsorbedWeights =>
        /\ (pc = "read" \/ (pc = "loop" /\ round >= 1)) => distance = result
        /\ (pc = "loop" /\ round >= 1) => h_distance = h_result
        /\ Returned => \A v \in Lanes : ret.path[v + 1][2] = result[v]

\* the Merge of a later round is over: one vertex has just got a smaller
\* finite result, another keeps the sentinel although its row has a valid edge
C22_Witness ==
    /\ AbsorbedWeights
    /\ pc = "read"
    /\ round >= 1
    /\ \E v \in Lanes \ {0} :
          /\ result[v] < h_result[v]
          /\ h_result[v] < FLT_MAX
          /\ distance[v] = result[v]
    /\ \E u \in Lanes \ {0} :
          /\ result[u] = FLT_MAX
          /\ distance[u] = FLT_MAX
          /\ \E e \in Lanes : ValidEdge(Weight(matrix, u, e))

====
